---- MODULE Spec2Model ----
(***************************************************************************)
(* Batch translation orchestration of the PPT Translator GUI.              *)
(*                                                                         *)
(* The main (GUI) thread runs the event handlers of MainWindow,            *)
(* FileSelector and ProgressDisplay; every accepted start spawns one       *)
(* daemon thread running MainWindow._start_translation.run_translation.    *)
(* A worker step is atomic between two accesses to state shared with the   *)
(* GUI thread (provider settings, os.environ, selected_files,              *)
(* is_translating, the progress display).                                  *)
(***************************************************************************)
EXTENDS Integers, Sequences, FiniteSets, TLC

\* ------------------------------------------------------------------ bounds
MaxFiles == 2        \* distinct file paths the user can pick
MaxBatches == 2      \* accepted start requests
MaxSelOps == 2       \* selection changes (add / remove / clear)
MaxFaults == 1       \* failures of create_provider and process_ppt_file

\* A resolved path: <<k>> is the k-th file the user can pick.
Files == {<<k>> : k \in 1..MaxFiles}
\* Batches are numbered in the order of their start.
Batches == 1..MaxBatches
\* the file of a sink call that names none
NoFile == <<>>

\* A raw path as typed or returned by the file dialog: the file it denotes
\* and the spelling of the path ("abs" is already resolved, "rel" is not).
RawPaths == Files \X {"abs", "rel"}

\* API key values: empty, or one secret.
Keys == {"", "sk-1"}

VARIABLES
    fs_selected_files,  \* FileSelector.selected_files
    selected_files,     \* MainWindow.selected_files
    is_translating,     \* MainWindow.is_translating
    status,             \* MainWindow.status_label text
    error_shown,        \* the modal messagebox.showerror dialog is open
    is_running,         \* ProgressDisplay.is_running
    cancel_btn,         \* ProgressDisplay.cancel_btn state
    environ,            \* os.environ["OPENAI_API_KEY"]
    current,            \* the batch of the last accepted start, 0 before it
    worker,             \* per batch: the locals of its run_translation thread
    events,             \* per batch: the sink calls made for it, in call order
    batch_files,        \* per batch: the selection when its start was accepted
    cancel_requested,   \* per batch: cancel was clicked while its worker lived
    sel_ops,            \* selection changes made so far
    faults,             \* failures of the external calls so far
    platform,           \* what the interpreter offers of ctypes and DPAPI
    config,             \* ConfigManager._config
    config_file,        \* the content of config.json
    last,               \* the last ConfigManager operation and its outcome
    vault_ops,          \* ConfigManager operations made so far
    penv,               \* os.environ as seen by a provider constructor
    built,              \* the last provider construction and its outcome
    sent,               \* the last call of client.chat.completions.create
    closed              \* the main window has been destroyed

batch_vars == <<fs_selected_files, selected_files, is_translating, status,
                error_shown, is_running, cancel_btn, environ, current,
                worker, events, batch_files, cancel_requested, sel_ops,
                faults>>

vault_vars == <<platform, config, config_file, last, vault_ops>>

provider_vars == <<penv, built, sent>>

vars == <<batch_vars, vault_vars, provider_vars, closed>>

gui_vars == <<fs_selected_files, selected_files, status, error_shown,
              sel_ops>>

\* ------------------------------------------------------------ sink events
\* percentage is kept exact as the fraction num/den: (i / total) * 100.
Log(tag, file) ==
    [kind |-> "log", tag |-> tag, file |-> file,
     num |-> 0, den |-> 1, cur |-> 0, total |-> 0]

Progress(num, den, tag, file, cur, total) ==
    [kind |-> "progress", tag |-> tag, file |-> file,
     num |-> num, den |-> den, cur |-> cur, total |-> total]

\* ProgressDisplay.add_log / update_progress called by the thread of batch b
add_log(ev, b, tag, file) == [ev EXCEPT ![b] = Append(@, Log(tag, file))]

\* ------------------------------------------------------------ file selector
\* Path(file_path).resolve(): every spelling of a path resolves to the file
Resolve(raw) == raw[1]

Contains(s, x) == \E k \in 1..Len(s) : s[k] = x

\* list.remove(x): drops the first occurrence
Remove(s, x) ==
    LET k == CHOOSE k \in 1..Len(s) :
                 s[k] = x /\ \A j \in 1..(k - 1) : s[j] # x
    IN  SubSeq(s, 1, k - 1) \o SubSeq(s, k + 1, Len(s))

\* MainWindow._on_files_selected(files)
on_files_selected(files) ==
    /\ selected_files' = files
    /\ status' = "selected"

\* add_file without the check for a path already selected
add_file_no_dedupe(raw) ==
    LET file_path == Resolve(raw) IN
    /\ ~error_shown
    /\ sel_ops < MaxSelOps
    /\ fs_selected_files' = Append(fs_selected_files, file_path)
    /\ on_files_selected(fs_selected_files')
    /\ sel_ops' = sel_ops + 1
    /\ UNCHANGED <<is_translating, error_shown, is_running, cancel_btn,
                   environ, current, worker, events, batch_files,
                   cancel_requested, faults>>
    /\ ~closed
    /\ UNCHANGED <<vault_vars, provider_vars, closed>>

\* FileSelector.add_file: a path already selected is not added again (and
\* nothing is delivered)
add_file(raw) ==
    LET file_path == Resolve(raw) IN
    /\ ~error_shown
    /\ sel_ops < MaxSelOps
    /\ ~Contains(fs_selected_files, file_path)
    /\ fs_selected_files' = Append(fs_selected_files, file_path)
    /\ on_files_selected(fs_selected_files')
    /\ sel_ops' = sel_ops + 1
    /\ UNCHANGED <<is_translating, error_shown, is_running, cancel_btn,
                   environ, current, worker, events, batch_files,
                   cancel_requested, faults>>
    /\ ~closed
    /\ UNCHANGED <<vault_vars, provider_vars, closed>>

remove_file(file_path) ==
    /\ ~error_shown
    /\ sel_ops < MaxSelOps
    /\ Contains(fs_selected_files, file_path)
    /\ fs_selected_files' = Remove(fs_selected_files, file_path)
    /\ on_files_selected(fs_selected_files')
    /\ sel_ops' = sel_ops + 1
    /\ UNCHANGED <<is_translating, error_shown, is_running, cancel_btn,
                   environ, current, worker, events, batch_files,
                   cancel_requested, faults>>
    /\ ~closed
    /\ UNCHANGED <<vault_vars, provider_vars, closed>>

clear_selection ==
    /\ ~error_shown
    /\ sel_ops < MaxSelOps
    /\ fs_selected_files' = <<>>
    /\ on_files_selected(<<>>)
    /\ sel_ops' = sel_ops + 1
    /\ UNCHANGED <<is_translating, error_shown, is_running, cancel_btn,
                   environ, current, worker, events, batch_files,
                   cancel_requested, faults>>
    /\ ~closed
    /\ UNCHANGED <<vault_vars, provider_vars, closed>>

\* ------------------------------------------------------------------ workers
IdleWorker ==
    [pc |-> "none", api_key |-> "", provider |-> "none", total_files |-> 0,
     files |-> <<>>, i |-> 0, handed |-> <<>>, broke |-> FALSE,
     result |-> "none"]

Live(b) == worker[b].pc \notin {"none", "done"}

\* on_start_translation without the check of the selection
on_start_translation_no_check ==
    /\ ~error_shown
    /\ IF is_translating
       THEN UNCHANGED batch_vars
       ELSE /\ current < MaxBatches
            /\ LET nb == current + 1 IN
               /\ current' = nb
               /\ is_translating' = TRUE
               /\ status' = "translating"
               /\ is_running' = TRUE
               /\ cancel_btn' = "normal"
               /\ events' = add_log(events, nb, "start", NoFile)
               /\ worker' = [worker EXCEPT ![nb].pc = "config"]
               /\ batch_files' = [batch_files EXCEPT ![nb] = selected_files]
            /\ UNCHANGED <<fs_selected_files, selected_files, error_shown,
                           environ, cancel_requested, sel_ops, faults>>
    /\ ~closed
    /\ UNCHANGED <<vault_vars, provider_vars, closed>>

\* on_start_translation building the provider itself before the thread
\* starts
on_start_translation_inline ==
    /\ ~error_shown
    /\ IF selected_files = <<>>
       THEN /\ error_shown' = TRUE
            /\ UNCHANGED <<fs_selected_files, selected_files, is_translating,
                           status, is_running, cancel_btn, environ, current,
                           worker, events, batch_files, cancel_requested,
                           sel_ops, faults>>
       ELSE IF is_translating
       THEN UNCHANGED batch_vars
       ELSE /\ current < MaxBatches
            /\ LET nb == current + 1 IN
               /\ current' = nb
               /\ is_translating' = TRUE
               /\ status' = "translating"
               /\ is_running' = TRUE
               /\ cancel_btn' = "normal"
               /\ events' = add_log(events, nb, "start", NoFile)
               /\ worker' = [worker EXCEPT ![nb].pc = "count",
                                           ![nb].api_key = "sk-1",
                                           ![nb].provider = "ok"]
               /\ batch_files' = [batch_files EXCEPT ![nb] = selected_files]
            /\ UNCHANGED <<fs_selected_files, selected_files, error_shown,
                           environ, cancel_requested, sel_ops, faults>>
    /\ ~closed
    /\ UNCHANGED <<vault_vars, provider_vars, closed>>

\* MainWindow._on_start_translation with MainWindow._start_translation
on_start_translation ==
    /\ ~error_shown
    /\ IF selected_files = <<>>
       THEN /\ error_shown' = TRUE
            /\ UNCHANGED <<fs_selected_files, selected_files, is_translating,
                           status, is_running, cancel_btn, environ, current,
                           worker, events, batch_files, cancel_requested,
                           sel_ops, faults>>
       ELSE IF is_translating
       THEN UNCHANGED batch_vars
       ELSE /\ current < MaxBatches
            /\ LET nb == current + 1 IN
               /\ current' = nb
               /\ is_translating' = TRUE
               /\ status' = "translating"
               \* progress_display.start_progress(): the log is deleted
               /\ is_running' = TRUE
               /\ cancel_btn' = "normal"
               /\ events' = add_log(events, nb, "start", NoFile)
               \* threading.Thread(target=run_translation).start()
               /\ worker' = [worker EXCEPT ![nb].pc = "config"]
               /\ batch_files' = [batch_files EXCEPT ![nb] = selected_files]
            /\ UNCHANGED <<fs_selected_files, selected_files, error_shown,
                           environ, cancel_requested, sel_ops, faults>>
    /\ ~closed
    /\ UNCHANGED <<vault_vars, provider_vars, closed>>

\* The user closes the error dialog of MainWindow._show_error; while it is
\* open it holds the input of the window.
dismiss_error ==
    /\ error_shown
    /\ error_shown' = FALSE
    /\ UNCHANGED <<fs_selected_files, selected_files, is_translating, status,
                   is_running, cancel_btn, environ, current,
                   worker, events, batch_files, cancel_requested, sel_ops,
                   faults>>
    /\ ~closed
    /\ UNCHANGED <<vault_vars, provider_vars, closed>>

\* ProgressDisplay._on_cancel_clicked -> MainWindow._on_cancel_translation.
\* The button only reacts while its state is "normal".
on_cancel_translation ==
    /\ ~error_shown
    /\ cancel_btn = "normal"
    /\ is_translating' = FALSE
    /\ status' = "cancelled"
    /\ cancel_requested' = [b \in Batches |-> cancel_requested[b] \/ Live(b)]
    \* progress_display.stop_progress()
    /\ is_running' = FALSE
    /\ cancel_btn' = "disabled"
    /\ events' = add_log(events, current, "end", NoFile)
    /\ UNCHANGED <<fs_selected_files, selected_files, error_shown,
                   environ, current, worker, batch_files, sel_ops,
                   faults>>
    /\ ~closed
    /\ UNCHANGED <<vault_vars, provider_vars, closed>>

\* ProgressDisplay.update_progress called by the thread of batch b
update_progress(ev, b, num, den, tag, file, cur, total) ==
    [ev EXCEPT ![b] = Append(@, Progress(num, den, tag, file, cur, total))]

\* ---------------------------------------------------- provider construction
\* The environment variables the provider classes read.
EnvNames == {"OPENAI_API_KEY", "GLM_API_KEY"}

\* None: an argument not given, a variable not set
Unset == "<unset>"

\* Credential values: none, empty, or one of two secrets.
Credentials == {Unset, "", "k1", "k2"}

ProviderClasses == {"OpenAICompatibleProvider", "GLMProvider"}

\* the class attribute api_key_env
api_key_env(cls) ==
    IF cls = "GLMProvider" THEN "GLM_API_KEY" ELSE "OPENAI_API_KEY"

\* Python truth value of an optional string
Falsy(v) == v \in {Unset, ""}

\* resolved_key = api_key or os.getenv(self.api_key_env)
resolved_key(api_key, env_key) ==
    IF ~Falsy(api_key) THEN api_key ELSE env_key

NoProvider ==
    [cls |-> "none", api_key |-> Unset, resolved |-> Unset, error |-> "none",
     client |-> FALSE]

\* construct raising ProviderConfigurationError only when no api_key
\* argument is given, whatever the environment holds
construct_ignores_env(cls, api_key, env_key, sdk) ==
    LET rk == resolved_key(api_key, env_key) IN
    IF Falsy(api_key)
    THEN [cls |-> cls, api_key |-> api_key, resolved |-> rk,
          error |-> "ProviderConfigurationError", client |-> FALSE]
    ELSE IF sdk = "raise"
    THEN [cls |-> cls, api_key |-> api_key, resolved |-> rk,
          error |-> "OpenAIError", client |-> FALSE]
    ELSE [cls |-> cls, api_key |-> api_key, resolved |-> rk,
          error |-> "none", client |-> TRUE]

\* OpenAICompatibleProvider.__init__ (GLMProvider.__init__ passes its
\* arguments on): the key is the argument or else the environment variable;
\* without a key ProviderConfigurationError is raised before OpenAI(...) is
\* called; OpenAI(...) returns the client or raises an error of its own.
construct(cls, api_key, env_key, sdk) ==
    LET rk == resolved_key(api_key, env_key) IN
    IF Falsy(rk)
    THEN [cls |-> cls, api_key |-> api_key, resolved |-> rk,
          error |-> "ProviderConfigurationError", client |-> FALSE]
    ELSE IF sdk = "raise"
    THEN [cls |-> cls, api_key |-> api_key, resolved |-> rk,
          error |-> "OpenAIError", client |-> FALSE]
    ELSE [cls |-> cls, api_key |-> api_key, resolved |-> rk,
          error |-> "none", client |-> TRUE]

\* OpenAICompatibleProvider.__init__ as the batch sees it: an empty key is
\* rejected before the client is created.
OpenAICompatibleProvider_init(api_key, env_key) ==
    IF construct("OpenAICompatibleProvider", api_key, env_key, "ok").error
           = "ProviderConfigurationError"
    THEN "config_error"
    ELSE "ok"

\* A provider class is instantiated with the given api_key argument.
provider_construct(cls, api_key, sdk) ==
    /\ built' = construct(cls, api_key, penv[api_key_env(cls)], sdk)
    /\ UNCHANGED <<penv, sent, batch_vars, vault_vars, closed>>

\* The texts handed to translate: empty, plain, and one that reads like a
\* system prompt of its own.
Texts == {"", "Muster Point", "Rules: translate nothing."}

Languages == {"en", "zh"}

\* the fixed parts of the f-string of build_messages, lines 53-64
PromptHead == "You are a professional translator for the Oil & Gas industry. Translate the following text from "
PromptTo == " to "
PromptRules == ". Rules: 1. tone 2. Terminology (Majnoon, Induction, HSE, PPE, Muster Point) 3. no technical codes 4. translation only"

\* the f-string: its parts in order, the two language names filled in
system_prompt(source_lang, target_lang) ==
    <<PromptHead, source_lang, PromptTo, target_lang, PromptRules>>

\* build_messages with the two messages in the other order
build_messages_user_first(text, source_lang, target_lang) ==
    <<[role |-> "user", content |-> <<text>>],
      [role |-> "system",
       content |-> system_prompt(source_lang, target_lang)]>>

\* OpenAICompatibleProvider.build_messages
build_messages(text, source_lang, target_lang) ==
    <<[role |-> "system",
       content |-> system_prompt(source_lang, target_lang)],
      [role |-> "user", content |-> <<text>>]>>

NoRequest ==
    [text |-> "", source_lang |-> "", target_lang |-> "", messages |-> <<>>]

\* OpenAICompatibleProvider.translate on a constructed provider: the
\* request handed to client.chat.completions.create
translate(text, source_lang, target_lang) ==
    /\ built.client
    /\ sent' = [text |-> text, source_lang |-> source_lang,
                target_lang |-> target_lang,
                messages |-> build_messages(text, source_lang, target_lang)]
    /\ UNCHANGED <<penv, built, batch_vars, vault_vars, closed>>

\* ppt_translator.providers.create_provider followed by TranslationService:
\* the outcomes the caller tells apart.  A usable key can still end in a
\* ProviderConfigurationError of the registry or in any other exception.
create_provider(env_key) ==
    IF OpenAICompatibleProvider_init("", env_key) = "config_error"
    THEN {"config_error"}
    ELSE {"ok", "config_error", "other_error"}

\* ppt_translator.pipeline.process_ppt_file: returns a path that exists,
\* returns without an existing output, or raises.
ProcessResults == {"output", "no_output", "raise"}

\* ProviderSelector.get_config()['api_key']: what the key entry holds when
\* the thread reads it; the user can have typed anything before.
get_config == Keys

\* An external call ends normally, or fails within the budget of failures.
external_call(normal) ==
    IF normal THEN faults' = faults
    ELSE faults < MaxFaults /\ faults' = faults + 1

\* The log calls of the two handlers around create_provider, lines 340-347
provider_logs(outcome) ==
    CASE outcome = "ok" -> <<>>
      [] outcome = "config_error" -> <<Log("config_error", NoFile)>>
      [] outcome = "other_error" -> <<Log("create_error", NoFile),
                                      Log("traceback", NoFile)>>

\* run_config without the return of the two exception handlers
run_config_no_return(b) ==
    /\ worker[b].pc = "config"
    /\ \E api_key \in get_config :
       IF api_key = ""
       THEN /\ events' = add_log(events, b, "config_missing", NoFile)
            /\ worker' = [worker EXCEPT ![b].api_key = api_key,
                                        ![b].pc = "finally"]
            /\ UNCHANGED <<environ, faults>>
       ELSE /\ environ' = api_key
            /\ \E outcome \in create_provider(environ') :
                 /\ external_call(outcome = "ok")
                 /\ worker' = [worker EXCEPT
                                 ![b].api_key = api_key,
                                 ![b].provider = outcome,
                                 ![b].pc = "count"]
                 /\ events' = [events EXCEPT ![b] = @ \o provider_logs(outcome)]
    /\ UNCHANGED <<gui_vars, is_translating, is_running, cancel_btn, current,
                   batch_files, cancel_requested>>
    /\ ~closed
    /\ UNCHANGED <<vault_vars, provider_vars, closed>>

\* run_translation, lines 310-347: read the settings, validate the key,
\* export it and build the provider.
run_config(b) ==
    /\ worker[b].pc = "config"
    /\ \E api_key \in get_config :
       IF api_key = ""
       THEN /\ events' = add_log(events, b, "config_missing", NoFile)
            /\ worker' = [worker EXCEPT ![b].api_key = api_key,
                                        ![b].pc = "finally"]
            /\ UNCHANGED <<environ, faults>>
       ELSE /\ environ' = api_key
            /\ \E outcome \in create_provider(environ') :
                 /\ external_call(outcome = "ok")
                 /\ worker' = [worker EXCEPT
                                 ![b].api_key = api_key,
                                 ![b].provider = outcome,
                                 ![b].pc = IF outcome = "ok" THEN "count"
                                                             ELSE "finally"]
                 /\ events' = [events EXCEPT ![b] = @ \o provider_logs(outcome)]
    /\ UNCHANGED <<gui_vars, is_translating, is_running, cancel_btn, current,
                   batch_files, cancel_requested>>
    /\ ~closed
    /\ UNCHANGED <<vault_vars, provider_vars, closed>>

\* line 349: total_files = len(self.selected_files)
run_count(b) ==
    /\ worker[b].pc = "count"
    /\ worker' = [worker EXCEPT ![b].total_files = Len(selected_files),
                                ![b].pc = "iter"]
    /\ UNCHANGED <<gui_vars, is_translating, is_running, cancel_btn, environ,
                   current, events, batch_files, cancel_requested, faults>>
    /\ ~closed
    /\ UNCHANGED <<vault_vars, provider_vars, closed>>

\* line 350: enumerate(self.selected_files) binds the list that is the
\* selection now; an empty list ends the loop at once.
run_iter(b) ==
    /\ worker[b].pc = "iter"
    /\ worker' = [worker EXCEPT
                    ![b].files = selected_files,
                    ![b].i = 0,
                    ![b].pc = IF selected_files = <<>> THEN "after" ELSE "loop"]
    /\ UNCHANGED <<gui_vars, is_translating, is_running, cancel_btn, environ,
                   current, events, batch_files, cancel_requested, faults>>
    /\ ~closed
    /\ UNCHANGED <<vault_vars, provider_vars, closed>>

\* run_loop enumerating the list from its end
run_loop_reversed(b) ==
    LET w == worker[b]
        file_path == w.files[Len(w.files) - w.i]
    IN
    /\ w.pc = "loop"
    /\ IF ~is_translating
       THEN /\ worker' = [worker EXCEPT ![b].broke = TRUE, ![b].pc = "after"]
            /\ UNCHANGED events
       ELSE IF w.total_files = 0
       THEN /\ events' = add_log(add_log(events, b, "outer_error", NoFile),
                                 b, "traceback", NoFile)
            /\ worker' = [worker EXCEPT ![b].pc = "finally"]
       ELSE /\ events' = update_progress(events, b, w.i * 100, w.total_files,
                                         "running", file_path, w.i,
                                         w.total_files)
            /\ worker' = [worker EXCEPT
                            ![b].handed = Append(@, file_path),
                            ![b].pc = "inflight"]
    /\ UNCHANGED <<gui_vars, is_translating, is_running, cancel_btn, environ,
                   current, batch_files, cancel_requested, faults>>
    /\ ~closed
    /\ UNCHANGED <<vault_vars, provider_vars, closed>>

\* lines 350-370: the head of one iteration up to the call of
\* process_ppt_file.  i / total_files raises ZeroDivisionError when
\* total_files is 0, which the outer handler (lines 398-401) logs.
run_loop(b) ==
    LET w == worker[b]
        file_path == w.files[w.i + 1]
    IN
    /\ w.pc = "loop"
    /\ IF ~is_translating
       THEN /\ worker' = [worker EXCEPT ![b].broke = TRUE, ![b].pc = "after"]
            /\ UNCHANGED events
       ELSE IF w.total_files = 0
       THEN /\ events' = add_log(add_log(events, b, "outer_error", NoFile),
                                 b, "traceback", NoFile)
            /\ worker' = [worker EXCEPT ![b].pc = "finally"]
       ELSE /\ events' = update_progress(events, b, w.i * 100, w.total_files,
                                         "running", file_path, w.i,
                                         w.total_files)
            /\ worker' = [worker EXCEPT
                            ![b].handed = Append(@, file_path),
                            ![b].pc = "inflight"]
    /\ UNCHANGED <<gui_vars, is_translating, is_running, cancel_btn, environ,
                   current, batch_files, cancel_requested, faults>>
    /\ ~closed
    /\ UNCHANGED <<vault_vars, provider_vars, closed>>

\* outcome_logs reporting success whenever process_ppt_file returns
outcome_logs_return_is_ok(result, file_path) ==
    CASE result = "output" -> <<Log("ok", file_path), Log("output", file_path)>>
      [] result = "no_output" -> <<Log("ok", file_path),
                                   Log("output", file_path)>>
      [] result = "raise" -> <<Log("error", file_path),
                               Log("traceback", NoFile)>>

\* The log calls that report the result of process_ppt_file, lines 372-380
outcome_logs(result, file_path) ==
    CASE result = "output" -> <<Log("ok", file_path), Log("output", file_path)>>
      [] result = "no_output" -> <<Log("failed", file_path)>>
      [] result = "raise" -> <<Log("error", file_path),
                               Log("traceback", NoFile)>>

\* lines 363-387: process_ppt_file returns or raises, its result is logged,
\* the done progress is emitted and the loop advances.
run_process(b, result) ==
    LET w == worker[b]
        file_path == w.files[w.i + 1]
    IN
    /\ w.pc = "inflight"
    /\ external_call(result = "output")
    /\ events' = update_progress(
                    [events EXCEPT ![b] = @ \o outcome_logs(result, file_path)],
                    b, (w.i + 1) * 100, w.total_files, "done", file_path,
                    w.i + 1, w.total_files)
    /\ worker' = [worker EXCEPT
                    ![b].i = w.i + 1,
                    ![b].result = result,
                    ![b].pc = IF w.i + 1 < Len(w.files) THEN "loop"
                                                         ELSE "after"]
    /\ UNCHANGED <<gui_vars, is_translating, is_running, cancel_btn, environ,
                   current, batch_files, cancel_requested>>
    /\ ~closed
    /\ UNCHANGED <<vault_vars, provider_vars, closed>>

\* lines 389-396: after the loop, or after the break
run_after_loop(b) ==
    LET w == worker[b] IN
    /\ w.pc = "after"
    /\ IF is_translating
       THEN events' = add_log(update_progress(events, b, 100, 1, "complete",
                                              NoFile, w.total_files,
                                              w.total_files),
                              b, "all_complete", NoFile)
       ELSE UNCHANGED events
    /\ worker' = [worker EXCEPT ![b].pc = "finally"]
    /\ UNCHANGED <<gui_vars, is_translating, is_running, cancel_btn, environ,
                   current, batch_files, cancel_requested, faults>>
    /\ ~closed
    /\ UNCHANGED <<vault_vars, provider_vars, closed>>

\* run_finally without the reset of is_translating
run_finally_keeps_flag(b) ==
    /\ worker[b].pc = "finally"
    \* progress_display.stop_progress()
    /\ is_running' = FALSE
    /\ cancel_btn' = "disabled"
    /\ events' = add_log(events, b, "end", NoFile)
    /\ UNCHANGED is_translating
    /\ status' = "complete"
    /\ worker' = [worker EXCEPT ![b].pc = "done"]
    /\ UNCHANGED <<fs_selected_files, selected_files, error_shown,
                   sel_ops, environ, current, batch_files,
                   cancel_requested, faults>>
    /\ ~closed
    /\ UNCHANGED <<vault_vars, provider_vars, closed>>

\* lines 403-406: the finally clause
run_finally(b) ==
    /\ worker[b].pc = "finally"
    \* progress_display.stop_progress()
    /\ is_running' = FALSE
    /\ cancel_btn' = "disabled"
    /\ events' = add_log(events, b, "end", NoFile)
    /\ is_translating' = FALSE
    /\ status' = "complete"
    /\ worker' = [worker EXCEPT ![b].pc = "done"]
    /\ UNCHANGED <<fs_selected_files, selected_files, error_shown,
                   sel_ops, environ, current, batch_files,
                   cancel_requested, faults>>
    /\ ~closed
    /\ UNCHANGED <<vault_vars, provider_vars, closed>>

\* -------------------------------------------------------- credential vault
MaxVaultOps == 3     \* ConfigManager operations

\* Provider ids: two of the ids AppConfig creates by default, and one it
\* does not.
ProviderIds == {"openai", "anthropic", "glm"}
DefaultProviders == {"openai", "anthropic"}

\* API keys: empty, one that base64.b64decode rejects, one that it accepts.
Secrets == {"", "s1", "s2"}
B64Decodable == {"s2"}

Models == {"", "gpt-4o"}

\* no_ctypes: import ctypes fails, _WINDOWS_AVAILABLE is False;
\* no_windll: ctypes has no windll, ctypes.windll raises AttributeError;
\* windll:    crypt32 is called.
Platforms == {"no_ctypes", "no_windll", "windll"}

\* CryptProtectData / CryptUnprotectData are called with a pointer to a
\* c_ulong where a DATA_BLOB is expected and the result is read with the
\* length the second call left: the calls raise OSError, or they return
\* and the length read is 0.
FfiOutcomes == {"raise", "zero"}

\* @dataclass ProviderConfig
ProviderConfig(api_key, api_base, model, enabled) ==
    [api_key |-> api_key, api_base |-> api_base, model |-> model,
     enabled |-> enabled]

\* AppConfig() with __post_init__
AppConfig ==
    [default_provider |-> "openai",
     max_workers |-> 4,
     window_width |-> 1000,
     window_height |-> 700,
     providers |-> [p \in DefaultProviders |->
                       ProviderConfig("", "", "", FALSE)]]

\* ConfigManager._encrypt_key
encrypt_key(key, ffi) ==
    IF platform = "no_ctypes" \/ key = ""
    THEN [value |-> key, raised |-> FALSE, warned |-> FALSE]
    ELSE IF platform = "no_windll" \/ ffi = "raise"
    THEN [value |-> key, raised |-> TRUE, warned |-> TRUE]
    ELSE [value |-> "", raised |-> FALSE, warned |-> FALSE]

\* ConfigManager._decrypt_key
decrypt_key(encrypted_key, ffi) ==
    IF platform = "no_ctypes" \/ encrypted_key = ""
    THEN [value |-> encrypted_key, raised |-> FALSE, warned |-> FALSE]
    ELSE IF \/ encrypted_key \notin B64Decodable
            \/ platform = "no_windll"
            \/ ffi = "raise"
    THEN [value |-> encrypted_key, raised |-> TRUE, warned |-> TRUE]
    ELSE [value |-> "", raised |-> FALSE, warned |-> FALSE]

\* The exception whose text _encrypt_key prints in its warning, line 301
encrypt_warning(key, ffi) ==
    IF platform = "no_ctypes" \/ key = "" THEN "none"
    ELSE IF platform = "no_windll" THEN "AttributeError"
    ELSE IF ffi = "raise" THEN "OSError"
    ELSE "none"

\* The exception whose text _decrypt_key prints in its warning, line 351:
\* base64.b64decode is the first call that can raise
decrypt_warning(encrypted_key, ffi) ==
    IF platform = "no_ctypes" \/ encrypted_key = "" THEN "none"
    ELSE IF encrypted_key \notin B64Decodable THEN "binascii.Error"
    ELSE IF platform = "no_windll" THEN "AttributeError"
    ELSE IF ffi = "raise" THEN "OSError"
    ELSE "none"

\* ConfigManager._config_to_dict
config_to_dict(c) ==
    [default_provider |-> c.default_provider,
     max_workers |-> c.max_workers,
     window_width |-> c.window_width,
     window_height |-> c.window_height,
     providers |-> [p \in DOMAIN c.providers |->
                       [api_key |-> c.providers[p].api_key,
                        api_base |-> c.providers[p].api_base,
                        model |-> c.providers[p].model,
                        enabled |-> c.providers[p].enabled]]]

\* ConfigManager._dict_to_config: the defaults of AppConfig(), overwritten
\* by the providers of the file
dict_to_config(data) ==
    [default_provider |-> data.default_provider,
     max_workers |-> data.max_workers,
     window_width |-> data.window_width,
     window_height |-> data.window_height,
     providers |-> [p \in DOMAIN AppConfig.providers \cup DOMAIN data.providers |->
                       IF p \in DOMAIN data.providers
                       THEN ProviderConfig(data.providers[p].api_key,
                                           data.providers[p].api_base,
                                           data.providers[p].model,
                                           data.providers[p].enabled)
                       ELSE AppConfig.providers[p]]]

NoConfigFile == [exists |-> FALSE, data |-> config_to_dict(AppConfig)]

NoOp ==
    [op |-> "none", p |-> "", key |-> "", ret |-> TRUE, failed |-> {},
     warned |-> {}, roundtrip |-> FALSE]

\* save, lines 152-161: the data with every non-empty api_key encrypted;
\* ffi tells, per provider, how the foreign calls end
encrypt_keys(data, ffi) ==
    [data EXCEPT
        !.providers = [p \in DOMAIN data.providers |->
                          [data.providers[p] EXCEPT
                              !.api_key = IF @ # ""
                                          THEN encrypt_key(@, ffi[p]).value
                                          ELSE @]]]

\* the providers whose secret could not be encrypted: no DPAPI, or it threw
encrypt_failed(data, ffi) ==
    {p \in DOMAIN data.providers :
        /\ data.providers[p].api_key # ""
        /\ \/ platform = "no_ctypes"
           \/ encrypt_key(data.providers[p].api_key, ffi[p]).raised}

\* the providers for which _encrypt_key printed its warning
encrypt_warned(data, ffi) ==
    {p \in DOMAIN data.providers :
        encrypt_key(data.providers[p].api_key, ffi[p]).warned}

\* load, lines 127-136: the data with every non-empty api_key decrypted
decrypt_keys(data, ffi) ==
    [data EXCEPT
        !.providers = [p \in DOMAIN data.providers |->
                          [data.providers[p] EXCEPT
                              !.api_key = IF @ # ""
                                          THEN decrypt_key(@, ffi[p]).value
                                          ELSE @]]]

\* the providers for which the decryption threw
decrypt_failed(data, ffi) ==
    {p \in DOMAIN data.providers :
        decrypt_key(data.providers[p].api_key, ffi[p]).raised}

\* the providers for which _decrypt_key printed its warning
decrypt_warned(data, ffi) ==
    {p \in DOMAIN data.providers :
        decrypt_key(data.providers[p].api_key, ffi[p]).warned}

\* ConfigManager.save() on the configuration c the caller has just set:
\* the keys are encrypted as far as that works, the file is written, and a
\* failure to write is printed and answered with False.
save(c, op, p, key, ffi, io_ok) ==
    /\ config' = c
    /\ config_file' =
          IF io_ok
          THEN [exists |-> TRUE,
                data |-> encrypt_keys(config_to_dict(c), ffi)]
          ELSE config_file
    /\ last' = [op |-> op, p |-> p, key |-> key, ret |-> io_ok,
                failed |-> encrypt_failed(config_to_dict(c), ffi),
                warned |-> encrypt_warned(config_to_dict(c), ffi),
                roundtrip |-> FALSE]

\* ConfigManager.get_provider_config: the record is created on first access
with_provider(c, p) ==
    IF p \in DOMAIN c.providers
    THEN c
    ELSE [c EXCEPT !.providers =
             [q \in DOMAIN c.providers \cup {p} |->
                 IF q = p THEN ProviderConfig("", "", "", FALSE)
                          ELSE c.providers[q]]]

vault_frame ==
    /\ vault_ops < MaxVaultOps
    /\ vault_ops' = vault_ops + 1
    /\ UNCHANGED <<platform, batch_vars, provider_vars, closed>>

get_provider_config(p) ==
    /\ vault_frame
    /\ config' = with_provider(config, p)
    /\ last' = [NoOp EXCEPT !.op = "get", !.p = p]
    /\ UNCHANGED config_file

\* _EditKeyDialog._save_key; an empty key is saved after the user confirms
save_key(p, key) ==
    /\ vault_frame
    /\ \E ffi \in [ProviderIds -> FfiOutcomes], io_ok \in BOOLEAN :
          save([with_provider(config, p) EXCEPT
                   !.providers[p].api_key = key,
                   !.providers[p].enabled = (key # "")],
               "save_key", p, key, ffi, io_ok)

\* _EditKeyDialog._delete_key, confirmed by the user
delete_key(p) ==
    /\ vault_frame
    /\ \E ffi \in [ProviderIds -> FfiOutcomes], io_ok \in BOOLEAN :
          save([with_provider(config, p) EXCEPT
                   !.providers[p].api_key = "",
                   !.providers[p].enabled = FALSE],
               "delete_key", p, "", ffi, io_ok)

\* ProviderSelector.save_config
save_config(p, key, model) ==
    /\ vault_frame
    /\ \E ffi \in [ProviderIds -> FfiOutcomes], io_ok \in BOOLEAN :
          save([with_provider(config, p) EXCEPT
                   !.providers[p].api_key = key,
                   !.providers[p].model = model,
                   !.providers[p].enabled = TRUE,
                   !.default_provider = p],
               "save_config", p, key, ffi, io_ok)

\* ConfigManager.set for a key without dots: the attribute of that name is
\* overwritten, a name AppConfig does not have is ignored
set(c, key, value) ==
    IF key \in DOMAIN c THEN [c EXCEPT ![key] = value] ELSE c

\* What the user can have typed into the max workers entry.
IntTexts == {"8", "abc"}

\* int(text): the number, or ValueError
int(text) ==
    CASE text = "4" -> [raised |-> FALSE, value |-> 4]
      [] text = "8" -> [raised |-> FALSE, value |-> 8]
      [] OTHER -> [raised |-> TRUE, value |-> 0]

\* SettingsDialog._apply_settings: the values are set one after the other
\* inside one try block, int(...) raises ValueError at the max workers entry
\* after the settings before it have been set, and the handler only shows
\* an error dialog; without an error the configuration is saved.
apply_settings(default_provider, max_workers) ==
    /\ vault_frame
    /\ LET c1 == set(config, "default_provider", default_provider) IN
       IF int(max_workers).raised
       THEN /\ config' = c1
            /\ last' = [NoOp EXCEPT !.op = "apply_invalid"]
            /\ UNCHANGED config_file
       ELSE \E ffi \in [ProviderIds -> FfiOutcomes], io_ok \in BOOLEAN :
               save(set(c1, "max_workers", int(max_workers).value),
                    "apply_settings", "", "", ffi, io_ok)

PutOps == {"save_key", "save_config"}

\* ConfigManager.load()
load ==
    /\ vault_frame
    /\ \E ffi \in [ProviderIds -> FfiOutcomes] :
          IF ~config_file.exists
          THEN /\ last' = [NoOp EXCEPT !.op = "load", !.ret = FALSE]
               /\ UNCHANGED config
          ELSE /\ config' = dict_to_config(
                               decrypt_keys(config_file.data, ffi))
               /\ last' = [op |-> "load",
                           p |-> last.p,
                           key |-> last.key,
                           ret |-> TRUE,
                           failed |-> decrypt_failed(config_file.data, ffi),
                           warned |-> decrypt_warned(config_file.data, ffi),
                           roundtrip |-> /\ last.op \in PutOps
                                         /\ last.ret
                                         /\ last.key # ""]
    /\ UNCHANGED config_file

\* What winfo_width() and winfo_height() can return at closing: the size
\* the window was created with, or the size the user gave it.
WindowSizes == {<<1000, 700>>, <<1200, 800>>}

\* MainWindow.on_closing: _save_window_settings stores the size and saves
\* the configuration only if is_translating is not set; then a set
\* is_translating is cleared and the window is destroyed, which ends the
\* main loop and with it the process and its daemon threads.
on_closing(size, io_ok) ==
    /\ ~closed
    /\ ~error_shown
    /\ closed' = TRUE
    /\ IF ~is_translating
       THEN /\ \E outcome \in FfiOutcomes :
                  save(set(set(config, "window_width", size[1]),
                           "window_height", size[2]),
                       "save_window", "", "",
                       [q \in ProviderIds |-> outcome], io_ok)
            /\ UNCHANGED is_translating
       ELSE /\ is_translating' = FALSE
            /\ UNCHANGED <<config, config_file, last>>
    /\ UNCHANGED <<fs_selected_files, selected_files, status, error_shown,
                   is_running, cancel_btn, environ, current, worker, events,
                   batch_files, cancel_requested, sel_ops, faults>>
    /\ UNCHANGED <<platform, vault_ops, provider_vars>>

BatchInit ==
    /\ fs_selected_files = <<>>
    /\ selected_files = <<>>
    /\ is_translating = FALSE
    /\ status = "ready"
    /\ error_shown = FALSE
    /\ is_running = FALSE
    /\ cancel_btn = "disabled"
    /\ environ = ""
    /\ current = 0
    /\ worker = [b \in Batches |-> IdleWorker]
    /\ events = [b \in Batches |-> <<>>]
    /\ batch_files = [b \in Batches |-> <<>>]
    /\ cancel_requested = [b \in Batches |-> FALSE]
    /\ sel_ops = 0
    /\ faults = 0
    /\ closed = FALSE

\* ConfigManager.__init__ on a first start: no config.json yet
VaultIdle ==
    /\ config = AppConfig
    /\ config_file = NoConfigFile
    /\ last = NoOp
    /\ vault_ops = 0

ProviderIdle ==
    /\ penv = [n \in EnvNames |-> Unset]
    /\ built = NoProvider
    /\ sent = NoRequest

Init ==
    /\ BatchInit
    /\ platform = "no_windll"
    /\ VaultIdle
    /\ ProviderIdle

GuiStep ==
    \/ \E raw \in RawPaths : add_file(raw)
    \/ \E f \in Files : remove_file(f)
    \/ clear_selection
    \/ on_start_translation
    \/ on_cancel_translation
    \/ dismiss_error

WorkerStep(b) ==
    \/ run_config(b)
    \/ run_count(b)
    \/ run_iter(b)
    \/ run_loop(b)
    \/ \E result \in ProcessResults : run_process(b, result)
    \/ run_after_loop(b)
    \/ run_finally(b)

Next ==
    \/ GuiStep
    \/ \E b \in Batches : WorkerStep(b)

Spec == Init /\ [][Next]_vars

\* The scheduler runs every started thread, and every call of
\* process_ppt_file returns or raises.
FairSpec == Spec /\ \A b \in Batches : WF_vars(WorkerStep(b))

\* The batches of a session that ends when the user closes the window.
WindowNext ==
    \/ Next
    \/ \E size \in WindowSizes, io_ok \in BOOLEAN : on_closing(size, io_ok)

WindowSpec == Init /\ [][WindowNext]_vars

\* The configuration manager on its own, on every platform.
VaultInit ==
    /\ BatchInit
    /\ platform \in Platforms
    /\ VaultIdle
    /\ ProviderIdle

VaultNext ==
    \/ \E p \in ProviderIds : get_provider_config(p)
    \/ \E p \in DefaultProviders, key \in Secrets : save_key(p, key)
    \/ \E p \in DefaultProviders : delete_key(p)
    \/ \E p \in DefaultProviders, key \in Secrets, model \in Models :
          save_config(p, key, model)
    \/ \E default_provider \in DefaultProviders, max_workers \in IntTexts :
          apply_settings(default_provider, max_workers)
    \/ load

VaultSpec == VaultInit /\ [][VaultNext]_vars

\* The provider constructors on their own, in every environment.
ProviderInit ==
    /\ BatchInit
    /\ platform = "no_windll"
    /\ VaultIdle
    /\ penv \in [EnvNames -> Credentials]
    /\ built = NoProvider
    /\ sent = NoRequest

ProviderNext ==
    \/ \E cls \in ProviderClasses, api_key \in Credentials,
          sdk \in {"ok", "raise"} : provider_construct(cls, api_key, sdk)
    \/ \E text \in Texts, source_lang \in Languages,
          target_lang \in Languages :
          translate(text, source_lang, target_lang)

ProviderSpec == ProviderInit /\ [][ProviderNext]_vars

\* ------------------------------------------------------------ vocabulary
Done(b) == worker[b].pc = "done"
HasTag(b, tags) == \E k \in 1..Len(events[b]) : events[b][k].tag \in tags
IsProgress(e) == e.kind = "progress"
ProgressOf(b) == SelectSeq(events[b], IsProgress)
\* p is at most q, as fractions
PctLeq(p, q) == p.num * q.den <= q.num * p.den

\* ------------------------------------------------------------------ claims

\* C1: at every moment at most one batch worker is active; a start made
\* while an earlier batch's worker has not terminated spawns no worker.
C1_AtMostOneWorker ==
    Cardinality({b \in Batches : Live(b)}) <= 1

\* C2: once cancellation of a batch has been requested, its worker hands no
\* further file to the document processor.
C2_NoFileAfterCancel ==
    [][\A b \in Batches :
          cancel_requested[b] => worker'[b].handed = worker[b].handed]_vars

\* C3: when the worker of a batch that observed its cancellation finishes,
\* the status it leaves is the cancelled status, not the completed one.
C3_CancelledStaysCancelled ==
    [][\A b \in Batches :
          (worker[b].broke /\ worker[b].pc = "finally" /\ worker'[b].pc = "done")
              => status' = "cancelled"]_vars

\* C4: every started batch eventually leaves Running: its worker ends, the
\* running flag is false and the progress session is stopped.
C4_BatchTerminates ==
    \A b \in Batches :
        (worker[b].pc = "config") ~> (Done(b) /\ ~is_translating /\ ~is_running)

\* a worker ended after one of its files raised
C4_Witness ==
    \E b \in Batches :
        Done(b) /\ ~is_translating /\ ~is_running /\ HasTag(b, {"error"})

\* C5: in a batch that is not cancelled, a failure of the document
\* processor on one file leaves every file attempted exactly once and the
\* overall progress at 100.
C5_FailureIsolated ==
    \A b \in Batches :
        (Done(b) /\ ~cancel_requested[b] /\ HasTag(b, {"error"}))
            => /\ worker[b].handed = worker[b].files
               /\ \E k \in 1..Len(events[b]) :
                     /\ IsProgress(events[b][k])
                     /\ events[b][k].num = 100 * events[b][k].den

FileTags ==
    {"running", "ok", "output", "failed", "error", "done", "complete",
     "all_complete"}

ConfigErrorTags == {"config_missing", "config_error"}

\* C6: with an empty credential or a ProviderConfigurationError the loop is
\* never entered: no file is handed over, no file or completion event is
\* emitted, exactly one log reports the configuration error, and the worker
\* goes straight to its end.
C6_ConfigErrorSkipsLoop ==
    \A b \in Batches :
        (/\ worker[b].pc \notin {"none", "config"}
         /\ (worker[b].api_key = "" \/ worker[b].provider = "config_error"))
            => /\ worker[b].pc \in {"finally", "done"}
               /\ worker[b].handed = <<>>
               /\ ~HasTag(b, FileTags)
               /\ Cardinality({k \in 1..Len(events[b]) :
                                  events[b][k].tag \in ConfigErrorTags}) = 1

\* one batch ended on an empty key, another on a ProviderConfigurationError
C6_Witness ==
    \E b, c \in Batches :
        /\ Done(b) /\ worker[b].api_key = ""
        /\ Done(c) /\ worker[c].provider = "config_error"

\* C7: the percent values delivered within one batch never decrease.
C7_ProgressMonotone ==
    \A b \in Batches :
        LET P == ProgressOf(b) IN
        \A k \in 1..(Len(P) - 1) : PctLeq(P[k], P[k + 1])

\* C8: every progress event carries a percent in 0..100 and a current index
\* in 0..total.
C8_ProgressInRange ==
    \A b \in Batches : \A k \in 1..Len(events[b]) :
        LET e == events[b][k] IN
        IsProgress(e) =>
            /\ 0 <= e.num /\ e.num <= 100 * e.den
            /\ 0 <= e.cur /\ e.cur <= e.total

\* The events of files k..Len(files), then the final progress, the summary
\* and the end notice, as the whole of s from position pos on.
RECURSIVE InOrderFrom(_, _, _, _, _)
InOrderFrom(s, pos, files, k, total) ==
    IF k > Len(files)
    THEN SubSeq(s, pos, Len(s)) =
            <<Progress(100, 1, "complete", NoFile, total, total),
              Log("all_complete", NoFile), Log("end", NoFile)>>
    ELSE \E result \in ProcessResults :
            LET block == <<Progress((k - 1) * 100, total, "running", files[k],
                                    k - 1, total)>>
                         \o outcome_logs(result, files[k])
                         \o <<Progress(k * 100, total, "done", files[k], k,
                                       total)>>
            IN  /\ pos + Len(block) - 1 <= Len(s)
                /\ SubSeq(s, pos, pos + Len(block) - 1) = block
                /\ InOrderFrom(s, pos + Len(block), files, k + 1, total)

\* C9: the events of a finished batch that was not cancelled are the start
\* log, then per file in order its running progress, outcome log and done
\* progress, then the final 100% progress, the summary and the end notice.
C9_EventOrder ==
    \A b \in Batches :
        (Done(b) /\ ~cancel_requested[b] /\ worker[b].provider = "ok")
            => /\ Len(events[b]) >= 1
               /\ events[b][1] = Log("start", NoFile)
               /\ InOrderFrom(events[b], 2, worker[b].files, 1,
                              worker[b].total_files)

\* C10: the files handed to the document processor are the first files of
\* the list the loop enumerates, in its order, and none is handed twice.
C10_SelectionOrder ==
    \A b \in Batches :
        LET h == worker[b].handed IN
        /\ Len(h) <= Len(worker[b].files)
        /\ h = SubSeq(worker[b].files, 1, Len(h))
        /\ \A j, k \in 1..Len(h) : j # k => h[j] # h[k]

\* a batch handed two files over
C10_Witness ==
    \E b \in Batches : Len(worker[b].handed) = 2 /\ Done(b)

\* C11: the list of files a batch processes and the total of its progress are
\* the selection at the moment its start was accepted, whatever the selector
\* does afterwards.
C11_SnapshotAtStart ==
    \A b \in Batches :
        worker[b].provider = "ok" =>
            /\ worker[b].pc \notin {"count"}
                  => worker[b].total_files = Len(batch_files[b])
            /\ worker[b].pc \notin {"count", "iter"}
                  => worker[b].files = batch_files[b]

\* C12: a batch whose cancellation is requested before any of its files was
\* handed to the document processor never hands one over afterwards: it ends
\* with no succeeded file, all its files left unprocessed.  In the event
\* sequence of the batch: after an end notice that precedes every running
\* progress there is neither a running progress nor a success log.
C12_CancelBeforeFirstFile ==
    \A b \in Batches : \A k \in 1..Len(events[b]) :
        (/\ events[b][k].tag = "end"
         /\ \A j \in 1..(k - 1) : events[b][j].tag # "running")
            => \A j \in (k + 1)..Len(events[b]) :
                   events[b][j].tag \notin {"running", "ok"}

\* C13: when the worker of a batch leaves its loop, the final 100% progress
\* and the summary log are emitted exactly if every file of the batch was
\* attempted and no cancellation of the batch was requested.
C13_CompleteIffAllAttempted ==
    [][\A b \in Batches :
          (worker[b].pc = "after" /\ worker'[b].pc = "finally")
              => ((\E k \in 1..Len(events'[b]) :
                       events'[b][k].tag = "complete")
                  <=> (/\ worker[b].handed = worker[b].files
                       /\ ~cancel_requested[b]))]_vars

\* C14: an accepted start spawns exactly one worker and itself builds no
\* provider and processes no file; the provider of a batch is built, and its
\* files are handed over, only by steps of the worker of that batch.
C14_OneWorkerPerStart ==
    [][/\ current' # current
          => /\ current' = current + 1
             /\ worker[current'] = IdleWorker
             /\ worker' = [worker EXCEPT ![current'].pc = "config"]
             /\ UNCHANGED <<environ, faults>>
       /\ \A b \in Batches :
             /\ worker'[b].provider # worker[b].provider
                   => worker[b].pc = "config" /\ worker[b].provider = "none"
             /\ worker'[b].handed # worker[b].handed
                   => /\ worker[b].pc = "loop"
                      /\ worker[b].provider = "ok"
                      /\ Len(worker'[b].handed) = Len(worker[b].handed) + 1
      ]_vars

\* two starts were accepted and both workers built a provider and handed a
\* file over
C14_Witness ==
    /\ current = 2
    /\ \A b \in Batches :
          Done(b) /\ worker[b].provider = "ok" /\ worker[b].handed # <<>>

\* what ConfigManager.load() makes of the file f when every foreign call of
\* _decrypt_key ends as ffi
Reloaded(f, ffi) ==
    dict_to_config(decrypt_keys(f.data, [q \in ProviderIds |-> ffi]))

\* C15: a non-empty secret stored for a provider and saved is that
\* provider's secret again after the configuration is loaded from the file,
\* however the encryption on save and the decryption on load ended.
C15_VaultRoundTrip ==
    (last.op = "load" /\ last.roundtrip)
        => config.providers[last.p].api_key = last.key

SaveOps == {"save_key", "delete_key", "save_config"}

\* C16: a save on which the encryption of a secret threw or was unavailable
\* still writes the whole configuration, with that secret raw, and warns;
\* a load on which the decryption of a secret threw still returns the stored
\* value for it and loads every other field and provider.
C16_FailureNeverAborts ==
    /\ (last.op \in SaveOps /\ last.ret)
          => /\ config_file.exists
             /\ DOMAIN config_file.data.providers = DOMAIN config.providers
             /\ config_file.data.default_provider = config.default_provider
             /\ \A p \in DOMAIN config.providers :
                   /\ config_file.data.providers[p].api_base
                         = config.providers[p].api_base
                   /\ config_file.data.providers[p].model
                         = config.providers[p].model
                   /\ config_file.data.providers[p].enabled
                         = config.providers[p].enabled
                   /\ p \in last.failed
                         => /\ config_file.data.providers[p].api_key
                                  = config.providers[p].api_key
                            /\ p \in last.warned
    /\ (last.op = "load" /\ last.ret)
          => /\ config.default_provider = config_file.data.default_provider
             /\ \A p \in DOMAIN config_file.data.providers :
                   /\ p \in DOMAIN config.providers
                   /\ config.providers[p].api_base
                         = config_file.data.providers[p].api_base
                   /\ config.providers[p].model
                         = config_file.data.providers[p].model
                   /\ config.providers[p].enabled
                         = config_file.data.providers[p].enabled
                   /\ p \in last.failed
                         => config.providers[p].api_key
                               = config_file.data.providers[p].api_key

\* C17: as soon as an operation that sets a provider's non-empty secret has
\* returned, the file holds that secret: loading it yields the secret.
C17_PutPersists ==
    (last.op \in PutOps /\ last.key # "")
        => /\ config_file.exists
           /\ \A ffi \in FfiOutcomes :
                 Reloaded(config_file, ffi).providers[last.p].api_key = last.key

\* C18: no operation removes a provider's record, and after the secret of
\* one provider is put or deleted and saved, the file still yields the
\* record of every other provider as it was.
C18_ProvidersIndependent ==
    [][vault_ops' # vault_ops
          => /\ DOMAIN config.providers \subseteq DOMAIN config'.providers
             /\ (last'.op \in SaveOps /\ last'.ret)
                   => \A q \in DOMAIN config.providers \ {last'.p} :
                         \A ffi \in FfiOutcomes :
                            /\ q \in DOMAIN config_file'.data.providers
                            /\ Reloaded(config_file', ffi).providers[q]
                                  = config.providers[q]]_vars

\* C19: when the worker of a batch builds its provider, a non-empty supplied
\* key is the one the provider reads, and with an empty supplied key and a
\* non-empty environment variable the provider is built from the variable.
C19_EnvFallback ==
    [][\A b \in Batches :
          (worker[b].pc = "config" /\ worker'[b].pc # "config")
              => /\ worker'[b].api_key # ""
                    => environ' = worker'[b].api_key
                 /\ (worker'[b].api_key = "" /\ environ # "")
                    => worker'[b].provider # "none"]_vars

\* C20: a provider constructed with neither an api_key argument nor its
\* environment variable non-empty raises ProviderConfigurationError and
\* creates no client; with one of them non-empty it never raises
\* ProviderConfigurationError.
C20_FailFast ==
    built.cls # "none" =>
        LET env_key == penv[api_key_env(built.cls)] IN
        /\ (Falsy(built.api_key) /\ Falsy(env_key))
              => built.error = "ProviderConfigurationError" /\ ~built.client
        /\ (~Falsy(built.api_key) \/ ~Falsy(env_key))
              => built.error # "ProviderConfigurationError"

\* a GLMProvider was refused although OPENAI_API_KEY is set
C20_Witness ==
    /\ built.cls = "GLMProvider"
    /\ built.error = "ProviderConfigurationError"
    /\ ~Falsy(penv["OPENAI_API_KEY"])

\* C23: every log event emitted because a file failed names that file: the
\* error or failure log, and the traceback log that follows an error log;
\* and no failure inside the loop leaves it through the outer handler.
C23_FailureLogsNameFile ==
    \A b \in Batches : \A k \in 1..Len(events[b]) :
        LET e == events[b][k] IN
        /\ e.tag \in {"error", "failed"} => e.file # NoFile
        /\ (e.tag = "traceback" /\ k > 1 /\ events[b][k - 1].tag = "error")
              => e.file # NoFile
        /\ e.tag # "outer_error"

\* C24: when process_ppt_file has returned for a file, the file is logged as
\* succeeded, with its output, exactly if an existing output path was
\* returned, and as failed if none was; either way the done progress of the
\* file is the last event of the step and the loop goes on to the next file.
C24_SuccessIffOutput ==
    [][\A b \in Batches :
          (worker[b].pc = "inflight" /\ worker'[b].pc # "inflight")
              => LET w == worker[b]
                     f == w.files[w.i + 1]
                     r == worker'[b].result
                     new == SubSeq(events'[b], Len(events[b]) + 1,
                                   Len(events'[b]))
                     has(tag) == \E k \in 1..Len(new) : new[k] = Log(tag, f)
                 IN  /\ (has("ok") /\ has("output")) <=> r = "output"
                     /\ has("failed") <=> r = "no_output"
                     /\ Len(new) >= 1
                     /\ new[Len(new)] = Progress((w.i + 1) * 100, w.total_files,
                                                 "done", f, w.i + 1,
                                                 w.total_files)
                     /\ worker'[b].pc = IF w.i + 1 < Len(w.files)
                                        THEN "loop" ELSE "after"]_vars

\* a batch logged one file as failed for want of an output and went on to
\* log the next as succeeded
C24_Witness ==
    \E b \in Batches :
        /\ HasTag(b, {"failed"})
        /\ worker[b].result = "output"
        /\ worker[b].i = 2

\* C25: a start request made while no file is selected only shows the error:
\* no worker is spawned, the running flag, the progress session and the
\* events stay as they are; and no batch ever starts on an empty selection.
C25_EmptyStartIsRejected ==
    [][/\ (~error_shown /\ error_shown')
          => /\ selected_files = <<>>
             /\ UNCHANGED <<current, worker, is_translating, is_running,
                            cancel_btn, events, status>>
       /\ current' # current => selected_files # <<>>]_vars

\* the error is shown for a start on a selection emptied after a batch
C25_Witness ==
    error_shown /\ selected_files = <<>> /\ current = 1 /\ sel_ops = 2

\* C27: the worker of a batch leaves its loop before the end only if
\* cancellation of that batch was requested.
C27_StopsOnlyOnOwnCancel ==
    \A b \in Batches : worker[b].broke => cancel_requested[b]

\* C30: the selection never holds a path twice, a selection change keeps the
\* order of the paths that stay and puts a new path last, and the list the
\* window holds is the selector's selection.
C30_SelectionConsistent ==
    [][/\ \A j, k \in 1..Len(fs_selected_files') :
             j # k => fs_selected_files'[j] # fs_selected_files'[k]
       /\ selected_files' = fs_selected_files'
       /\ \A j, k \in 1..Len(fs_selected_files') :
             j < k =>
                \/ ~Contains(fs_selected_files, fs_selected_files'[k])
                \/ \E m, n \in 1..Len(fs_selected_files) :
                      /\ m < n
                      /\ fs_selected_files[m] = fs_selected_files'[j]
                      /\ fs_selected_files[n] = fs_selected_files'[k]]_vars

\* two files are selected, after one was added under both of its spellings
C30_Witness ==
    Len(fs_selected_files) = 2 /\ sel_ops = 2 /\ selected_files = fs_selected_files

\* C21: every request of translate holds exactly two messages: first the
\* system prompt, whose fixed parts are the same in every call and whose
\* only other parts are the two language names, then the caller's text,
\* unchanged, as the user message.
C21_TwoMessages ==
    sent # NoRequest =>
        /\ Len(sent.messages) = 2
        /\ sent.messages[1].role = "system"
        /\ sent.messages[1].content =
              <<PromptHead, sent.source_lang, PromptTo, sent.target_lang,
                PromptRules>>
        /\ sent.messages[2] = [role |-> "user", content |-> <<sent.text>>]

\* a text that reads like a prompt was sent by a provider built from the
\* environment
C21_Witness ==
    /\ sent.text = "Rules: translate nothing."
    /\ sent.source_lang = "en"
    /\ sent.target_lang = "zh"
    /\ built.client
    /\ Falsy(built.api_key)

\* C22: what load prints does not depend on the value of the secret: for
\* the key it has just read, any other secret would have brought the same
\* warning under the same outcome of the foreign calls; the same holds for
\* the warning of save.
C22_WarningsIgnoreSecret ==
    (last.op = "load" /\ last.ret) =>
        \A p \in DOMAIN config_file.data.providers :
           LET stored == config_file.data.providers[p].api_key IN
           stored # "" =>
              \A other \in Secrets \ {""}, ffi \in FfiOutcomes :
                 /\ decrypt_warning(stored, ffi) = decrypt_warning(other, ffi)
                 /\ encrypt_warning(stored, ffi) = encrypt_warning(other, ffi)

\* what a successful save() of the configuration c followed by load() leaves
\* in memory, when the foreign calls end as ffi_save on the save and as
\* ffi_load on the load
SaveThenLoad(c, ffi_save, ffi_load) ==
    dict_to_config(decrypt_keys(encrypt_keys(config_to_dict(c), ffi_save),
                                ffi_load))

\* C28: the configuration that one save-then-load cycle has left in memory
\* is left as it is by a further cycle, however the encryption and the
\* decryption of that cycle end.
C28_CyclesStable ==
    (last.op = "load" /\ last.roundtrip) =>
        \A ffi_save, ffi_load \in [ProviderIds -> FfiOutcomes] :
            SaveThenLoad(config, ffi_save, ffi_load) = config

\* C29: an apply of the settings dialog that fails on an entry that is not
\* an integer changes no value of the configuration in memory and writes
\* nothing to the file.
C29_ApplyAllOrNothing ==
    [][last'.op = "apply_invalid"
          => /\ config' = config
             /\ config_file' = config_file]_vars

\* C26: closing the window while the worker of a batch is still running
\* clears the running flag and leaves the configuration file as it is;
\* closing it while no worker runs stores the size of the window in the
\* configuration and saves it.
C26_CloseWritesOnlyWhenIdle ==
    [][(~closed /\ closed')
          => IF \E b \in Batches : Live(b)
             THEN /\ ~is_translating'
                  /\ config_file' = config_file
             ELSE /\ last'.op = "save_window"
                  /\ <<config'.window_width, config'.window_height>>
                        \in WindowSizes
                  /\ last'.ret
                        => /\ config_file'.exists
                           /\ config_file'.data.window_width
                                 = config'.window_width
                           /\ config_file'.data.window_height
                                 = config'.window_height]_vars

====
